---- MODULE Spec2Model ----
(***************************************************************************)
(* Model of the Exynos TRNG Rust driver and the kernel abstractions it     *)
(* rests on: the bounded polling primitive (rust/kernel/iopoll.rs), the    *)
(* hwrng registration and its callback trampolines                         *)
(* (rust/kernel/hw_random.rs) and the concrete driver                      *)
(* (drivers/char/hw_random/exynos_trng_rust.rs).                           *)
(*                                                                         *)
(* Five specifications share the module:                                   *)
(*   SpecPoll  one call of readx_poll_timeout with arbitrary parameters    *)
(*   SpecDrv   init and read of the driver against the register window     *)
(*   SpecConc  two concurrent calls of init or read on one instance        *)
(*   SpecLife  probe, registration, callbacks, suspend/resume and remove   *)
(*   SpecDrvLive  SpecDrv with a running clock and threads that proceed    *)
(***************************************************************************)
EXTENDS Integers, Sequences, FiniteSets, TLC

(***************************************************************************)
(* Bounds of the model                                                     *)
(***************************************************************************)
\* largest sleep interval (us) a modelled poll call is given
MaxSleepUs == 4
\* largest timeout budget (us) a modelled poll call is given
MaxTimeoutUs == 6
\* values the polled operation produces are 0..MaxVal
MaxVal == 1
\* reads one poll call may perform before the model stops following it
MaxReads == 6
\* a sleep may overrun the upper end of its range by at most this much
MaxOversleepUs == 1
\* one read of the polled operation takes at most this long
MaxOpUs == 1

VARIABLES
  \* ---- readx_poll_timeout (iopoll.rs) ----
  sleep_us,      \* parameter: maximum time to sleep between reads
  timeout_us,    \* parameter: timeout budget, 0 = never time out
  cond,          \* parameter: the break condition, as the set of values it accepts
  now,           \* the clock ktime::get() reads, in us
  timeout,       \* local `timeout`: the deadline ktime::get().add_us(timeout_us)
  val,           \* local `val`: value of the most recent read
  ppc,           \* position of the call inside the macro body
  presult,       \* what the call returned: "none" while running
  pvalue,        \* the value carried by Ok(val)
  lastOp,        \* history: the value the most recent call of `op` produced
  nreads,        \* history: number of calls of `op`
  nsleeps,       \* history: number of calls of usleep_range
  sawExpired,    \* history: ktime::get() > timeout was observed
  extraRead,     \* history: the read after the deadline was performed
  slack,         \* history: time passed outside an admissible sleep
  \* ---- the driver against its register window (exynos_trng_rust.rs) ----
  usizeBits,     \* width of usize on the build target: 32 or 64
  clk_rate,      \* what clk.get_rate() returns, in Hz
  resources,     \* whether trng.resources() is Some: "present" or "revoked"
  regs,          \* the word registers of the window, by byte offset
  fifo,          \* the bytes of the FIFO data window at 0x80..0x9f
  wlog,          \* history: every writel_relaxed, in order
  lockHolder,    \* the thread holding the `inner` spinlock, or "none"
  active,        \* the threads that call into the driver
  th,            \* per thread: position and locals of its init or read call
  clearedAt,     \* history: clock at the hardware's last clear of FIFO_CTRL
  \* ---- probe, registration, callbacks, remove (hw_random.rs, driver) ----
  lpc,           \* position of the platform core's probe / remove of the device
  to_use,        \* T::TO_USE: which optional callbacks the driver declares
  clk,           \* the clock: "none", "got", "enabled", "disabled"
  mem,           \* the register window: "none", "mapped", "unmapped"
  pm,            \* runtime PM of the device: "none", "enabled", "disabled"
  gets,          \* history: successful pm_runtime::resume_and_get calls
  puts,          \* history: pm_runtime::put_sync calls
  suspended,     \* the power core has suspended the device
  npm,           \* suspend/resume cycles so far
  dataRefs,      \* reference count of Ref<DeviceData>
  hwrng,         \* the callback table, struct hwrng
  registered,    \* the hwrng core holds the table
  regOk,         \* history: successful hwrng_register calls
  unregCalls,    \* history: hwrng_unregister calls
  unregBad,      \* history: hwrng_unregister was called on an unregistered table
  drop,          \* Drop for Registration: "none", "unregistering", "returned"
  cb,            \* per caller of the hwrng core: its callback in flight
  initInvoked,   \* the init entry has been called
  cleanupInvoked, \* the cleanup entry has been called
  removePut,     \* history: remove has released the power usage
  inflightAtUnreg \* history: a callback was in flight when unregister began

pollVars == <<sleep_us, timeout_us, cond, timeout, val, ppc, presult,
              pvalue, lastOp, nreads, nsleeps, sawExpired, extraRead, slack>>

drvVars == <<usizeBits, clk_rate, resources, regs, fifo, wlog, lockHolder,
             active, th, clearedAt>>

lifeVars == <<lpc, to_use, clk, mem, pm, gets, puts, suspended, npm, dataRefs,
              hwrng, registered, regOk, unregCalls, unregBad, drop, cb,
              initInvoked, cleanupInvoked, removePut, inflightAtUnreg>>

vars == <<now, pollVars, drvVars, lifeVars>>

Values == 0..MaxVal
NoVal == 0 - 1

(***************************************************************************)
(* ktime.rs                                                                *)
(***************************************************************************)
\* Ktime::add_us
add_us(t, usec) == t + usec

\* ktime_compare: the sign of the difference, as core::cmp::Ordering
ktime_compare(cmp1, cmp2) ==
  IF cmp1 < cmp2 THEN "Less" ELSE IF cmp1 = cmp2 THEN "Equal" ELSE "Greater"

\* PartialOrd for Ktime: a > b
ktime_gt(a, b) == ktime_compare(a, b) = "Greater"

(***************************************************************************)
(* delay.rs                                                                *)
(***************************************************************************)
\* usleep_range(min, max): the durations the sleep may take.  The timer
\* fires inside [min, max]; the task may be scheduled later than that.
usleep_range(min, max, over) ==
  {d \in min..(max + over) : d >= min}

(***************************************************************************)
(* iopoll.rs: read_poll_timeout!, as instantiated by readx_poll_timeout    *)
(***************************************************************************)
\* readx_poll_timeout passes `false` for sleep_before_read
sleep_before_read == FALSE

\* lower end of the sleep range: (sleep_us >> 2) + 1
SleepMin(s) == (s \div 4) + 1

\* faulty variant: the `timeout_us != 0` half of the test is dropped
DeadlinePassedIgnoringZero(t_us, clock, deadline) ==
  ktime_gt(clock, deadline)

\* faulty variant: the deadline itself already counts as passed (>= for >)
DeadlinePassedAtDeadline(t_us, clock, deadline) ==
  t_us /= 0 /\ ktime_compare(clock, deadline) /= "Less"

\* the loop's timeout test: timeout_us != 0 && ktime::get() > timeout
DeadlinePassed(t_us, clock, deadline) ==
  t_us /= 0 /\ ktime_gt(clock, deadline)

\* faulty variant: the final test of the condition is dropped
PollOutcomeAlwaysOk(v, c) == "Ok"

\* the macro's final expression: Ok(val) if cond(&val) else Err(ETIMEDOUT)
PollOutcome(v, c) == IF v \in c THEN "Ok" ELSE "ETIMEDOUT"

\* what a step of the poll call leaves alone
PollFrame == UNCHANGED <<drvVars, lifeVars>>

\* let timeout = ktime::get().add_us(timeout_us); the optional first sleep
PollEnter ==
  /\ ppc = "start"
  /\ timeout' = add_us(now, timeout_us)
  /\ IF sleep_before_read /\ sleep_us /= 0
     THEN /\ \E d \in usleep_range(SleepMin(sleep_us), sleep_us, MaxOversleepUs) :
               /\ now' = now + d
               /\ slack' = (slack \/ d > sleep_us)
          /\ nsleeps' = nsleeps + 1
     ELSE UNCHANGED <<now, slack, nsleeps>>
  /\ ppc' = "read"
  /\ UNCHANGED <<sleep_us, timeout_us, cond, val, presult, pvalue, lastOp,
                 nreads, sawExpired, extraRead>>
  /\ PollFrame

\* let val = op(args); if cond(&val) { break val; }
PollRead ==
  /\ ppc = "read"
  /\ nreads < MaxReads
  /\ \E v \in Values, d \in 0..MaxOpUs :
       /\ val' = v
       /\ lastOp' = v
       /\ now' = now + d
       /\ slack' = (slack \/ d > 0)
       /\ ppc' = IF v \in cond THEN "exit" ELSE "check"
  /\ nreads' = nreads + 1
  /\ UNCHANGED <<sleep_us, timeout_us, cond, timeout, presult, pvalue,
                 nsleeps, sawExpired, extraRead>>
  /\ PollFrame

\* faulty variant: on a passed deadline the loop breaks without the extra read
PollCheckWithoutLastRead ==
  /\ ppc = "check"
  /\ IF DeadlinePassed(timeout_us, now, timeout)
     THEN /\ sawExpired' = TRUE
          /\ ppc' = "exit"
     ELSE /\ ppc' = "sleep"
          /\ UNCHANGED sawExpired
  /\ UNCHANGED <<sleep_us, timeout_us, cond, now, timeout, val, presult,
                 pvalue, lastOp, nreads, nsleeps, extraRead, slack>>
  /\ PollFrame

\* if timeout_us != 0 && ktime::get() > timeout { break op(args); }
PollCheck ==
  /\ ppc = "check"
  /\ IF DeadlinePassed(timeout_us, now, timeout)
     THEN /\ sawExpired' = TRUE
          /\ ppc' = "last"
     ELSE /\ ppc' = "sleep"
          /\ UNCHANGED sawExpired
  /\ UNCHANGED <<sleep_us, timeout_us, cond, now, timeout, val, presult,
                 pvalue, lastOp, nreads, nsleeps, extraRead, slack>>
  /\ PollFrame

\* the read after the deadline: break unsafe { op(args) }
PollLastRead ==
  /\ ppc = "last"
  /\ nreads < MaxReads
  /\ \E v \in Values, d \in 0..MaxOpUs :
       /\ val' = v
       /\ lastOp' = v
       /\ now' = now + d
       /\ slack' = (slack \/ d > 0)
  /\ nreads' = nreads + 1
  /\ extraRead' = TRUE
  /\ ppc' = "exit"
  /\ UNCHANGED <<sleep_us, timeout_us, cond, timeout, presult, pvalue,
                 nsleeps, sawExpired>>
  /\ PollFrame

\* if sleep_us != 0 { usleep_range((sleep_us >> 2) + 1, sleep_us); }
PollSleep ==
  /\ ppc = "sleep"
  /\ IF sleep_us /= 0
     THEN /\ \E d \in usleep_range(SleepMin(sleep_us), sleep_us, MaxOversleepUs) :
               /\ now' = now + d
               /\ slack' = (slack \/ d > sleep_us)
          /\ nsleeps' = nsleeps + 1
     ELSE UNCHANGED <<now, slack, nsleeps>>
  /\ ppc' = "read"
  /\ UNCHANGED <<sleep_us, timeout_us, cond, timeout, val, presult, pvalue,
                 lastOp, nreads, sawExpired, extraRead>>
  /\ PollFrame

\* if cond(&val) { Ok(val) } else { Err(Error::ETIMEDOUT) }
PollReturn ==
  /\ ppc = "exit"
  /\ presult' = PollOutcome(val, cond)
  /\ pvalue' = IF PollOutcome(val, cond) = "Ok" THEN val ELSE NoVal
  /\ ppc' = "done"
  /\ UNCHANGED <<sleep_us, timeout_us, cond, now, timeout, val, lastOp,
                 nreads, nsleeps, sawExpired, extraRead, slack>>
  /\ PollFrame

(***************************************************************************)
(* exynos_trng_rust.rs: the register window and the driver's init and read *)
(***************************************************************************)
\* short sleeps (inside the range) the model follows per read; after them a
\* sleep is followed only as one long oversleep
MaxShortSleeps == 3
\* how far past its range a sampled long sleep of the read's poll runs
DrvOversleepUs == 333000
\* the hardware fills the FIFO with one of the byte patterns 0..MaxSeed
MaxSeed == 1

EXYNOS_TRNG_CLKDIV == 0
EXYNOS_TRNG_CTRL == 32
\* a u32 register word, as the set of its one bits (bit 0 the least
\* significant); Word(n) is the word of the number n < 2^31
Word(n) == {i \in 0..30 : (n \div (2 ^ i)) % 2 = 1}
\* BIT(n)
BIT(n) == {n}
\* 0x1 << 31, BIT(31)
EXYNOS_TRNG_CTRL_RNGEN == BIT(31)
EXYNOS_REG_SIZE == 256
EXYNOS_TRNG_POST_CTRL == 48
EXYNOS_TRNG_FIFO_CTRL == 80
EXYNOS_TRNG_FIFO_0 == 128
EXYNOS_TRNG_FIFO_LEN == 8
EXYNOS_TRNG_CLOCK_RATE == 500000
\* the 15-bit divider field: `if val > 0x7fff`
CLKDIV_FIELD_MAX == 32767
\* readl_poll_timeout(EXYNOS_TRNG_FIFO_CTRL, |val| *val == 0, 200, 1000000)
READ_POLL_SLEEP_US == 200
READ_POLL_TIMEOUT_US == 1000000
ReadPollCond == {Word(0)}

DrvThreads == {"t1", "t2"}
RegOffsets == {EXYNOS_TRNG_CLKDIV, EXYNOS_TRNG_CTRL, EXYNOS_TRNG_POST_CTRL,
               EXYNOS_TRNG_FIFO_CTRL}
RegsReset == [o \in RegOffsets |-> Word(0)]
FifoBytes == EXYNOS_TRNG_FIFO_LEN * 4

\* A clock rate in Hz is held as <<m, h>>, standing for m * 10^6 + h with
\* h < 10^6 (rates of interest exceed the checker's integers).
RateBase == 1000 * 1000
\* clock rates the clock producer is modelled to run at: 0 Hz, 999 999 Hz,
\* 1 MHz, 24 MHz, 1 GHz, 4 294 967 295 Hz (u32::MAX), 32 767 999 999 Hz,
\* 32 768 MHz and 65 536 MHz
RateSamples == {<<0, 0>>, <<0, 999999>>, <<1, 0>>, <<24, 0>>, <<1000, 0>>,
                <<4294, 967295>>, <<32767, 999999>>, <<32768, 0>>,
                <<65536, 0>>}
\* whether the rate fits a usize of the given width
FitsUsize(rate, bits) ==
  bits = 64 \/ rate[1] < 4294 \/ (rate[1] = 4294 /\ rate[2] <= 967295)
\* buffer lengths a read is called with
BufLens == {0, 1, 4, 31, 32, 100}

\* a pattern of FIFO contents, distinct at every index
FifoPattern(seed) == [i \in 1..FifoBytes |-> (seed * 64 + i) % 256]
\* what the caller's buffer holds before the call (never a FIFO byte)
CallerBuf(len) == [i \in 1..len |-> 255 - (i % 2)]

NoRet == [kind |-> "none", v |-> 0, e |-> "none"]
Ok(v) == [kind |-> "Ok", v |-> v, e |-> "none"]
Err(e) == [kind |-> "Err", v |-> 0, e |-> e]

ThreadIdle ==
  [pc |-> "idle", op |-> "none", sss_rate |-> <<0, 0>>, val |-> 0, len |-> 0,
   max |-> 0, data |-> <<>>, data0 |-> <<>>, timeout |-> 0, pval |-> {},
   ret |-> NoRet, sawExp |-> FALSE, extra |-> FALSE, nwr |-> 0, nrd |-> 0,
   nshort |-> 0, lastOp |-> {}, fifoAtCopy |-> <<>>,
   served |-> NoVal, servedAtCopy |-> NoVal, pendAtCopy |-> FALSE]

\* core::cmp::min
min(a, b) == IF a < b THEN a ELSE b

\* a number's usize -> u32 by try_into(): fails above u32::MAX
TryIntoU32Ok(v) == v \div 65536 <= 65535

\* a bit pattern's usize -> u32 by try_into(): fails with a bit above bit 31
BitsTryIntoU32Ok(w) == \A b \in w : b <= 31

\* faulty variant: the divider is written unshifted
ClkDivWordUnshifted(v) == v

\* val <<= 1 (val <= 0x7fff here: the shift cannot overflow a usize)
ClkDivWord(v) == v * 2

\* faulty variant: the range check against a 16-bit field
DividerTooLargeFor16Bits(v) == v > 65535

\* if val > 0x7fff
DividerTooLarge(v) == v > CLKDIV_FIELD_MAX

\* faulty variant: the rate is divided by EXYNOS_TRNG_CLOCK_RATE alone
DividerByClockRate(rate) ==
  LET d == EXYNOS_TRNG_CLOCK_RATE IN
    rate[1] * (RateBase \div d) + (rate[1] * (RateBase % d) + rate[2]) \div d

\* sss_rate / (EXYNOS_TRNG_CLOCK_RATE * 2), by long division of <<m, h>>
Divider(rate) ==
  LET d == EXYNOS_TRNG_CLOCK_RATE * 2 IN
    rate[1] * (RateBase \div d) + (rate[1] * (RateBase % d) + rate[2]) \div d

\* faulty variant: the FIFO length in words is taken for its length in bytes
ReadMaxInWords(len) == min(len, EXYNOS_TRNG_FIFO_LEN)

\* min(data.len().try_into()?, EXYNOS_TRNG_FIFO_LEN * 4)
ReadMax(len) == min(len, EXYNOS_TRNG_FIFO_LEN * 4)

\* IoMem::writel_relaxed(value, offset)
writel_relaxed(t, value, offset) ==
  /\ regs' = [regs EXCEPT ![offset] = value]
  /\ wlog' = Append(wlog, [off |-> offset, val |-> value, by |-> t])

\* IoMem::try_memcpy_fromio(buf, offset): refused beyond the window
MemcpyInWindow(n, offset) == offset + n <= EXYNOS_REG_SIZE

\* faulty variant: the copy starts one byte into the FIFO window
CopyFromFifoShifted(buf, n) ==
  [i \in 1..Len(buf) |-> IF i <= n THEN fifo[(i % FifoBytes) + 1] ELSE buf[i]]

\* &mut data[..max] filled from the window at EXYNOS_TRNG_FIFO_0
CopyFromFifo(buf, n) ==
  [i \in 1..Len(buf) |-> IF i <= n THEN fifo[i] ELSE buf[i]]

\* the durations followed for usleep_range(min, max) in the read's poll; with
\* two threads at once a single sleep that outlasts the whole budget
DrvSleepSamples(lo, hi, nshort) ==
  IF active = DrvThreads
  THEN {hi + 4 * DrvOversleepUs}
  ELSE (IF nshort < MaxShortSleeps THEN {lo, hi} ELSE {})
         \cup {hi + DrvOversleepUs}

\* the buffer lengths followed: with two threads at once a one-byte and a
\* full-FIFO request
ConcBufLens == {1, 32}
ReadLens == IF active = DrvThreads THEN ConcBufLens ELSE BufLens

DrvFrame == UNCHANGED <<pollVars, lifeVars>>
Set(t, r) == th' = [th EXCEPT ![t] = r]

\* the registry calls the init callback on thread t
DrvCallInit(t) ==
  /\ th[t].pc = "idle"
  /\ Set(t, [th[t] EXCEPT !.pc = "i_lock", !.op = "init"])
  /\ UNCHANGED <<now, usizeBits, clk_rate, resources, regs, fifo, wlog,
                 lockHolder, active, clearedAt>>
  /\ DrvFrame

\* trng.inner.lock()
DrvInitLock(t) ==
  /\ th[t].pc = "i_lock"
  /\ lockHolder = "none"
  /\ lockHolder' = t
  /\ Set(t, [th[t] EXCEPT !.pc = "i_rate"])
  /\ UNCHANGED <<now, usizeBits, clk_rate, resources, regs, fifo, wlog,
                 active, clearedAt>>
  /\ DrvFrame

\* .clk.get_rate()
DrvInitGetRate(t) ==
  /\ th[t].pc = "i_rate"
  /\ Set(t, [th[t] EXCEPT !.pc = "i_unlock", !.sss_rate = clk_rate])
  /\ UNCHANGED <<now, usizeBits, clk_rate, resources, regs, fifo, wlog,
                 lockHolder, active, clearedAt>>
  /\ DrvFrame

\* faulty variant: the guard lives on after the statement that took it
DrvInitKeepLock(t) ==
  /\ th[t].pc = "i_unlock"
  /\ Set(t, [th[t] EXCEPT !.pc = "i_check"])
  /\ UNCHANGED <<now, usizeBits, clk_rate, resources, regs, fifo, wlog,
                 lockHolder, active, clearedAt>>
  /\ DrvFrame

\* the guard is a temporary: dropped at the end of `let sss_rate = ...;`
DrvInitUnlock(t) ==
  /\ th[t].pc = "i_unlock"
  /\ lockHolder' = "none"
  /\ Set(t, [th[t] EXCEPT !.pc = "i_check"])
  /\ UNCHANGED <<now, usizeBits, clk_rate, resources, regs, fifo, wlog,
                 active, clearedAt>>
  /\ DrvFrame

\* let mut val = sss_rate / (RATE * 2); if val > 0x7fff { return Err(ERANGE) }
DrvInitCheck(t) ==
  /\ th[t].pc = "i_check"
  /\ LET v == Divider(th[t].sss_rate) IN
       IF DividerTooLarge(v)
       THEN Set(t, [th[t] EXCEPT !.pc = "ret", !.val = v, !.ret = Err("ERANGE")])
       ELSE Set(t, [th[t] EXCEPT !.pc = "i_res", !.val = v])
  /\ UNCHANGED <<now, usizeBits, clk_rate, resources, regs, fifo, wlog,
                 lockHolder, active, clearedAt>>
  /\ DrvFrame

\* let trng = trng.resources().ok_or(Error::ENXIO)?;
DrvInitResources(t) ==
  /\ th[t].pc = "i_res"
  /\ IF resources = "present"
     THEN Set(t, [th[t] EXCEPT !.pc = "i_clkdiv"])
     ELSE Set(t, [th[t] EXCEPT !.pc = "ret", !.ret = Err("ENXIO")])
  /\ UNCHANGED <<now, usizeBits, clk_rate, resources, regs, fifo, wlog,
                 lockHolder, active, clearedAt>>
  /\ DrvFrame

\* val <<= 1; trng.mem.writel_relaxed(val.try_into()?, EXYNOS_TRNG_CLKDIV);
DrvInitWriteClkdiv(t) ==
  /\ th[t].pc = "i_clkdiv"
  /\ LET v == ClkDivWord(th[t].val) IN
       IF TryIntoU32Ok(v)
       THEN /\ writel_relaxed(t, Word(v), EXYNOS_TRNG_CLKDIV)
            /\ Set(t, [th[t] EXCEPT !.pc = "i_ctrl", !.val = v])
       ELSE /\ Set(t, [th[t] EXCEPT !.pc = "ret", !.val = v,
                                    !.ret = Err("EINVAL")])
            /\ UNCHANGED <<regs, wlog>>
  /\ UNCHANGED <<now, usizeBits, clk_rate, resources, fifo, lockHolder,
                 active, clearedAt>>
  /\ DrvFrame

\* val = EXYNOS_TRNG_CTRL_RNGEN; writel_relaxed(val.try_into()?, CTRL);
DrvInitWriteCtrl(t) ==
  /\ th[t].pc = "i_ctrl"
  /\ LET v == EXYNOS_TRNG_CTRL_RNGEN IN
       IF BitsTryIntoU32Ok(v)
       THEN /\ writel_relaxed(t, v, EXYNOS_TRNG_CTRL)
            /\ Set(t, [th[t] EXCEPT !.pc = "i_post"])
       ELSE /\ Set(t, [th[t] EXCEPT !.pc = "ret", !.ret = Err("EINVAL")])
            /\ UNCHANGED <<regs, wlog>>
  /\ UNCHANGED <<now, usizeBits, clk_rate, resources, fifo, lockHolder,
                 active, clearedAt>>
  /\ DrvFrame

\* trng.mem.writel_relaxed(0, EXYNOS_TRNG_POST_CTRL); Ok(())
DrvInitWritePost(t) ==
  /\ th[t].pc = "i_post"
  /\ writel_relaxed(t, Word(0), EXYNOS_TRNG_POST_CTRL)
  /\ Set(t, [th[t] EXCEPT !.pc = "ret", !.ret = Ok(0)])
  /\ UNCHANGED <<now, usizeBits, clk_rate, resources, fifo, lockHolder,
                 active, clearedAt>>
  /\ DrvFrame

\* the registry calls the read callback on thread t with a buffer of len bytes
DrvCallRead(t) ==
  /\ th[t].pc = "idle"
  /\ \E len \in ReadLens :
       Set(t, [th[t] EXCEPT !.pc = "r_res", !.op = "read", !.len = len,
                            !.data = CallerBuf(len), !.data0 = CallerBuf(len)])
  /\ UNCHANGED <<now, usizeBits, clk_rate, resources, regs, fifo, wlog,
                 lockHolder, active, clearedAt>>
  /\ DrvFrame

\* let trng = trng.resources().ok_or(Error::ENXIO)?; let max: u32 = min(...)
DrvReadResources(t) ==
  /\ th[t].pc = "r_res"
  /\ IF resources /= "present"
     THEN Set(t, [th[t] EXCEPT !.pc = "ret", !.ret = Err("ENXIO")])
     ELSE IF ~TryIntoU32Ok(th[t].len)
     THEN Set(t, [th[t] EXCEPT !.pc = "ret", !.ret = Err("EINVAL")])
     ELSE Set(t, [th[t] EXCEPT !.pc = "r_start", !.max = ReadMax(th[t].len)])
  /\ UNCHANGED <<now, usizeBits, clk_rate, resources, regs, fifo, wlog,
                 lockHolder, active, clearedAt>>
  /\ DrvFrame

\* a read is past its write to FIFO_CTRL and has not copied yet
InReadWindow(t) ==
  /\ th[t].op = "read"
  /\ th[t].pc \in {"p_enter", "p_read", "p_check", "p_last", "p_sleep",
                   "p_exit", "r_copy"}

\* faulty variant: a read starts only while no other read is in its window
DrvReadStartExclusive(t) ==
  /\ th[t].pc = "r_start"
  /\ \A u \in active \ {t} : ~InReadWindow(u)
  /\ writel_relaxed(t, Word(th[t].max * 8), EXYNOS_TRNG_FIFO_CTRL)
  /\ Set(t, [th[t] EXCEPT !.pc = "p_enter", !.nwr = @ + 1])
  /\ UNCHANGED <<now, usizeBits, clk_rate, resources, fifo, lockHolder,
                 active, clearedAt>>
  /\ DrvFrame

\* trng.mem.writel_relaxed(max * 8, EXYNOS_TRNG_FIFO_CTRL);
DrvReadStart(t) ==
  /\ th[t].pc = "r_start"
  /\ writel_relaxed(t, Word(th[t].max * 8), EXYNOS_TRNG_FIFO_CTRL)
  /\ Set(t, [th[t] EXCEPT !.pc = "p_enter", !.nwr = @ + 1])
  /\ UNCHANGED <<now, usizeBits, clk_rate, resources, fifo, lockHolder,
                 active, clearedAt>>
  /\ DrvFrame

\* read_poll_timeout!: let timeout = ktime::get().add_us(timeout_us);
DrvPollEnter(t) ==
  /\ th[t].pc = "p_enter"
  /\ Set(t, [th[t] EXCEPT !.pc = "p_read",
                          !.timeout = add_us(now, READ_POLL_TIMEOUT_US)])
  /\ UNCHANGED <<now, usizeBits, clk_rate, resources, regs, fifo, wlog,
                 lockHolder, active, clearedAt>>
  /\ DrvFrame

\* let val = readl(FIFO_CTRL); if cond(&val) { break val; }
DrvPollRead(t) ==
  /\ th[t].pc = "p_read"
  /\ LET v == regs[EXYNOS_TRNG_FIFO_CTRL] IN
       Set(t, [th[t] EXCEPT !.pval = v, !.lastOp = v, !.nrd = @ + 1,
                 !.pc = IF v \in ReadPollCond THEN "p_exit" ELSE "p_check"])
  /\ UNCHANGED <<now, usizeBits, clk_rate, resources, regs, fifo, wlog,
                 lockHolder, active, clearedAt>>
  /\ DrvFrame

\* faulty variant: the poll has no deadline, it goes on only once the
\* hardware has cleared the register
DrvPollCheckWithoutDeadline(t) ==
  /\ th[t].pc = "p_check"
  /\ regs[EXYNOS_TRNG_FIFO_CTRL] \in ReadPollCond
  /\ Set(t, [th[t] EXCEPT !.pc = "p_read"])
  /\ UNCHANGED <<now, usizeBits, clk_rate, resources, regs, fifo, wlog,
                 lockHolder, active, clearedAt>>
  /\ DrvFrame

\* if timeout_us != 0 && ktime::get() > timeout { break readl(FIFO_CTRL); }
DrvPollCheck(t) ==
  /\ th[t].pc = "p_check"
  /\ IF DeadlinePassed(READ_POLL_TIMEOUT_US, now, th[t].timeout)
     THEN Set(t, [th[t] EXCEPT !.pc = "p_last", !.sawExp = TRUE])
     ELSE Set(t, [th[t] EXCEPT !.pc = "p_sleep"])
  /\ UNCHANGED <<now, usizeBits, clk_rate, resources, regs, fifo, wlog,
                 lockHolder, active, clearedAt>>
  /\ DrvFrame

\* the read after the deadline
DrvPollLastRead(t) ==
  /\ th[t].pc = "p_last"
  /\ LET v == regs[EXYNOS_TRNG_FIFO_CTRL] IN
       Set(t, [th[t] EXCEPT !.pval = v, !.lastOp = v, !.nrd = @ + 1,
                            !.extra = TRUE, !.pc = "p_exit"])
  /\ UNCHANGED <<now, usizeBits, clk_rate, resources, regs, fifo, wlog,
                 lockHolder, active, clearedAt>>
  /\ DrvFrame

\* if sleep_us != 0 { usleep_range((sleep_us >> 2) + 1, sleep_us); }
DrvPollSleep(t) ==
  /\ th[t].pc = "p_sleep"
  /\ IF READ_POLL_SLEEP_US /= 0
     THEN \E d \in DrvSleepSamples(SleepMin(READ_POLL_SLEEP_US),
                                   READ_POLL_SLEEP_US, th[t].nshort) :
            /\ now' = now + d
            /\ Set(t, [th[t] EXCEPT !.pc = "p_read",
                 !.nshort = IF d <= READ_POLL_SLEEP_US THEN @ + 1 ELSE @])
     ELSE /\ Set(t, [th[t] EXCEPT !.pc = "p_read"])
          /\ UNCHANGED now
  /\ UNCHANGED <<usizeBits, clk_rate, resources, regs, fifo, wlog,
                 lockHolder, active, clearedAt>>
  /\ DrvFrame

\* the macro's result, and the `?` that follows it in read
DrvPollReturn(t) ==
  /\ th[t].pc = "p_exit"
  /\ IF PollOutcome(th[t].pval, ReadPollCond) = "Ok"
     THEN Set(t, [th[t] EXCEPT !.pc = "r_copy"])
     ELSE Set(t, [th[t] EXCEPT !.pc = "ret", !.ret = Err("ETIMEDOUT")])
  /\ UNCHANGED <<now, usizeBits, clk_rate, resources, regs, fifo, wlog,
                 lockHolder, active, clearedAt>>
  /\ DrvFrame

\* trng.mem.try_memcpy_fromio(&mut data[..max as _], EXYNOS_TRNG_FIFO_0)?;
DrvReadCopy(t) ==
  /\ th[t].pc = "r_copy"
  /\ IF MemcpyInWindow(th[t].max, EXYNOS_TRNG_FIFO_0)
     THEN Set(t, [th[t] EXCEPT !.pc = "r_ok", !.fifoAtCopy = fifo,
                               !.data = CopyFromFifo(th[t].data, th[t].max),
                               !.servedAtCopy = th[t].served,
                               !.pendAtCopy =
                                 (regs[EXYNOS_TRNG_FIFO_CTRL] /= Word(0))])
     ELSE Set(t, [th[t] EXCEPT !.pc = "ret", !.ret = Err("EINVAL")])
  /\ UNCHANGED <<now, usizeBits, clk_rate, resources, regs, fifo, wlog,
                 lockHolder, active, clearedAt>>
  /\ DrvFrame

\* Ok(max)
DrvReadReturn(t) ==
  /\ th[t].pc = "r_ok"
  /\ Set(t, [th[t] EXCEPT !.pc = "ret", !.ret = Ok(th[t].max)])
  /\ UNCHANGED <<now, usizeBits, clk_rate, resources, regs, fifo, wlog,
                 lockHolder, active, clearedAt>>
  /\ DrvFrame

\* the number a register word below 2^31 stands for
WordValue(w) ==
  LET sum[i \in 0..31] ==
        IF i = 31 THEN 0
        ELSE (IF i \in w THEN 2 ^ i ELSE 0) + sum[i + 1]
  IN  sum[0]

\* the request the hardware sees: the last write to FIFO_CTRL
LastFifoRequest ==
  LET ws == SelectSeq(wlog, LAMBDA w : w.off = EXYNOS_TRNG_FIFO_CTRL)
  IN  ws[Len(ws)]

\* the hardware completes a pending generation request: it fills the FIFO
\* and clears FIFO_CTRL to zero; the read whose request it was is noted
HwGenerate ==
  /\ regs[EXYNOS_TRNG_FIFO_CTRL] /= Word(0)
  /\ \E seed \in 0..MaxSeed : fifo' = FifoPattern(seed)
  /\ regs' = [regs EXCEPT ![EXYNOS_TRNG_FIFO_CTRL] = Word(0)]
  /\ clearedAt' = now
  /\ th' = [th EXCEPT ![LastFifoRequest.by].served =
                        WordValue(LastFifoRequest.val)]
  /\ UNCHANGED <<now, usizeBits, clk_rate, resources, wlog, lockHolder,
                 active>>
  /\ DrvFrame

DrvIdle ==
  /\ usizeBits = 64 /\ clk_rate = <<0, 0>> /\ resources = "present"
  /\ regs = RegsReset /\ fifo = FifoPattern(0) /\ wlog = <<>>
  /\ lockHolder = "none" /\ active = {}
  /\ th = [t \in DrvThreads |-> ThreadIdle]
  /\ clearedAt = NoVal

(***************************************************************************)
(* hw_random.rs and the driver's probe, remove, suspend and resume         *)
(***************************************************************************)
\* suspend/resume cycles the power-management core is followed through
MaxPmCycles == 1

Callers == {"c1", "c2"}
\* a caller of the hwrng core: where its call is, which entry it called, the
\* driver's result, the value the trampoline returned (the last call's, once
\* idle again) and whether the trampoline's reference owns the instance
CbIdle == [pc |-> "idle", kind |-> "none", res |-> NoRet, cret |-> 0,
           owned |-> FALSE]
CbCall(kind) == [pc |-> "tramp", kind |-> kind, res |-> NoRet, cret |-> 0,
                 owned |-> FALSE]
HwrngDefault == [init |-> FALSE, cleanup |-> FALSE, read |-> FALSE,
                 priv |-> "null"]
\* declare_hwrng_operations!(init) of ExynosTrngDevice is
\* [init |-> TRUE, cleanup |-> FALSE]; Registration<T> is followed for every T
ToUseChoices == [init : BOOLEAN, cleanup : BOOLEAN]

LifeFrame == UNCHANGED <<now, pollVars, drvVars>>

\* what is released when the last owner of the device data goes away: the
\* DisableGuard (pm_runtime_disable), the register window and the EnabledClk
ReleaseOwned ==
  /\ pm' = IF pm = "enabled" THEN "disabled" ELSE pm
  /\ mem' = IF mem = "mapped" THEN "unmapped" ELSE mem
  /\ clk' = IF clk = "enabled" THEN "disabled" ELSE clk

\* ---- platform::Driver::probe ----
\* let clk = pdev.clk_get(Some(c_str!("secss")))?;
ProbeClkGet ==
  /\ lpc = "p_clk_get"
  /\ \E ok \in BOOLEAN :
       /\ clk' = IF ok THEN "got" ELSE clk
       /\ lpc' = IF ok THEN "p_prepare" ELSE "p_unwind"
  /\ UNCHANGED <<to_use, mem, pm, gets, puts, suspended, npm, dataRefs, hwrng,
                 registered, regOk, unregCalls, unregBad, drop, cb,
                 initInvoked, cleanupInvoked, removePut, inflightAtUnreg>>
  /\ LifeFrame

\* let clk = clk.prepare_enable()?;
ProbePrepareEnable ==
  /\ lpc = "p_prepare"
  /\ \E ok \in BOOLEAN :
       /\ clk' = IF ok THEN "enabled" ELSE clk
       /\ lpc' = IF ok THEN "p_ioremap" ELSE "p_unwind"
  /\ UNCHANGED <<to_use, mem, pm, gets, puts, suspended, npm, dataRefs, hwrng,
                 registered, regOk, unregCalls, unregBad, drop, cb,
                 initInvoked, cleanupInvoked, removePut, inflightAtUnreg>>
  /\ LifeFrame

\* let mem: IoMem<EXYNOS_REG_SIZE> = unsafe { pdev.ioremap_resource(0) }?;
ProbeIoremap ==
  /\ lpc = "p_ioremap"
  /\ \E ok \in BOOLEAN :
       /\ mem' = IF ok THEN "mapped" ELSE mem
       /\ lpc' = IF ok THEN "p_pm_enable" ELSE "p_unwind"
  /\ UNCHANGED <<to_use, clk, pm, gets, puts, suspended, npm, dataRefs, hwrng,
                 registered, regOk, unregCalls, unregBad, drop, cb,
                 initInvoked, cleanupInvoked, removePut, inflightAtUnreg>>
  /\ LifeFrame

\* let disable = pm_runtime::enable(pdev);
ProbePmEnable ==
  /\ lpc = "p_pm_enable"
  /\ pm' = "enabled"
  /\ lpc' = "p_resume"
  /\ UNCHANGED <<to_use, clk, mem, gets, puts, suspended, npm, dataRefs,
                 hwrng, registered, regOk, unregCalls, unregBad, drop, cb,
                 initInvoked, cleanupInvoked, removePut, inflightAtUnreg>>
  /\ LifeFrame

\* pm_runtime::resume_and_get(pdev)?;
ProbeResumeAndGet ==
  /\ lpc = "p_resume"
  /\ \E ok \in BOOLEAN :
       /\ gets' = IF ok THEN gets + 1 ELSE gets
       /\ lpc' = IF ok THEN "p_data" ELSE "p_unwind"
  /\ UNCHANGED <<to_use, clk, mem, pm, puts, suspended, npm, dataRefs, hwrng,
                 registered, regOk, unregCalls, unregBad, drop, cb,
                 initInvoked, cleanupInvoked, removePut, inflightAtUnreg>>
  /\ LifeFrame

\* let mut data = kernel::new_device_data!(...)?; let data = Ref::from(data);
ProbeNewDeviceData ==
  /\ lpc = "p_data"
  /\ \E ok \in BOOLEAN :
       /\ dataRefs' = IF ok THEN 1 ELSE dataRefs
       /\ lpc' = IF ok THEN "p_reg_ptr" ELSE "p_unwind"
  /\ UNCHANGED <<to_use, clk, mem, pm, gets, puts, suspended, npm, hwrng,
                 registered, regOk, unregCalls, unregBad, drop, cb,
                 initInvoked, cleanupInvoked, removePut, inflightAtUnreg>>
  /\ LifeFrame

\* ---- data.registrations()...register(name, 0, data.clone())?: the driver's
\* registration step, followed through the registration code of hw_random.rs
\* (Registration::new_pinned) ----
\* let data_pointer = <T::Data as PointerWrapper>::into_pointer(data);
NewPinnedIntoPointer ==
  /\ lpc = "p_reg_ptr"
  /\ dataRefs' = dataRefs + 1
  /\ lpc' = "p_reg_init"
  /\ UNCHANGED <<to_use, clk, mem, pm, gets, puts, suspended, npm, hwrng,
                 registered, regOk, unregCalls, unregBad, drop, cb,
                 initInvoked, cleanupInvoked, removePut, inflightAtUnreg>>
  /\ LifeFrame

\* faulty variant: every entry of the table is filled in, declared or not
init_hwrng_all_entries(data) ==
  [init |-> TRUE, cleanup |-> TRUE, read |-> TRUE, priv |-> data]

\* Registration::init_hwrng: the callback table
init_hwrng(data) ==
  [init |-> to_use.init, cleanup |-> to_use.cleanup, read |-> TRUE,
   priv |-> data]

\* Self::init_hwrng(&mut *registeration.hwrng.get(), name, quality, data_pointer)
NewPinnedInitHwrng ==
  /\ lpc = "p_reg_init"
  /\ hwrng' = init_hwrng("data")
  /\ lpc' = "p_reg_box"
  /\ UNCHANGED <<to_use, clk, mem, pm, gets, puts, suspended, npm, dataRefs,
                 registered, regOk, unregCalls, unregBad, drop, cb,
                 initInvoked, cleanupInvoked, removePut, inflightAtUnreg>>
  /\ LifeFrame

\* let pinned = Pin::from(Box::try_new(registeration)?);  On failure the
\* Registration handed to try_new is dropped.
NewPinnedBox ==
  /\ lpc = "p_reg_box"
  /\ \E ok \in BOOLEAN :
       lpc' = IF ok THEN "p_reg_register" ELSE "p_reg_drop"
  /\ UNCHANGED <<to_use, clk, mem, pm, gets, puts, suspended, npm, dataRefs,
                 hwrng, registered, regOk, unregCalls, unregBad, drop, cb,
                 initInvoked, cleanupInvoked, removePut, inflightAtUnreg>>
  /\ LifeFrame

\* Registration::register: bindings::hwrng_register; Err if ret < 0, and then
\* `pinned` is dropped on the way out of new_pinned
NewPinnedRegister ==
  /\ lpc = "p_reg_register"
  /\ \E ret \in {0, 0 - 1} :
       IF ret < 0
       THEN /\ lpc' = "p_reg_drop"
            /\ UNCHANGED <<registered, regOk>>
       ELSE /\ registered' = TRUE
            /\ regOk' = regOk + 1
            /\ lpc' = "p_ok"
  /\ UNCHANGED <<to_use, clk, mem, pm, gets, puts, suspended, npm, dataRefs,
                 hwrng, unregCalls, unregBad, drop, cb, initInvoked,
                 cleanupInvoked, removePut, inflightAtUnreg>>
  /\ LifeFrame

\* faulty variant: a step that can fail follows the registration
ProbeFallibleAfterRegister ==
  /\ lpc = "p_ok"
  /\ \E ok \in BOOLEAN : lpc' = IF ok THEN "bound" ELSE "p_unwind"
  /\ UNCHANGED <<to_use, clk, mem, pm, gets, puts, suspended, npm, dataRefs,
                 hwrng, registered, regOk, unregCalls, unregBad, drop, cb,
                 initInvoked, cleanupInvoked, removePut, inflightAtUnreg>>
  /\ LifeFrame

\* Ok(data): the probe is over, the platform core keeps the data
ProbeReturnOk ==
  /\ lpc = "p_ok"
  /\ lpc' = "bound"
  /\ UNCHANGED <<to_use, clk, mem, pm, gets, puts, suspended, npm, dataRefs,
                 hwrng, registered, regOk, unregCalls, unregBad, drop, cb,
                 initInvoked, cleanupInvoked, removePut, inflightAtUnreg>>
  /\ LifeFrame

\* an error return of probe: its locals are dropped; the device data goes
\* away with its last reference
ProbeUnwind ==
  /\ lpc = "p_unwind"
  /\ IF dataRefs > 1
     THEN /\ dataRefs' = dataRefs - 1
          /\ UNCHANGED <<pm, mem, clk>>
     ELSE /\ dataRefs' = 0
          /\ ReleaseOwned
  /\ lpc' = "failed"
  /\ UNCHANGED <<to_use, gets, puts, suspended, npm, hwrng, registered, regOk,
                 unregCalls, unregBad, drop, cb, initInvoked, cleanupInvoked,
                 removePut, inflightAtUnreg>>
  /\ LifeFrame

\* ---- the hwrng core, by its contract ----
\* hwrng_unregister: the table leaves the registry, no new callback starts
hwrng_unregister ==
  /\ registered' = FALSE
  /\ unregCalls' = unregCalls + 1
  /\ unregBad' = (unregBad \/ ~registered)

\* hwrng_unregister returns once no callback of the table is in flight
hwrng_unregister_drained == \A c \in Callers : cb[c].pc = "idle"

\* the hwrng core calls the init entry of a registered table, at most once
RegistryCallInit(c) ==
  /\ registered /\ hwrng.init /\ ~initInvoked
  /\ cb[c].pc = "idle"
  /\ cb' = [cb EXCEPT ![c] = CbCall("init")]
  /\ initInvoked' = TRUE
  /\ UNCHANGED <<lpc, to_use, clk, mem, pm, gets, puts, suspended, npm,
                 dataRefs, hwrng, registered, regOk, unregCalls, unregBad,
                 drop, cleanupInvoked, removePut, inflightAtUnreg>>
  /\ LifeFrame

\* the hwrng core calls the read entry of a registered table
RegistryCallRead(c) ==
  /\ registered /\ hwrng.read
  /\ cb[c].pc = "idle"
  /\ cb' = [cb EXCEPT ![c] = CbCall("read")]
  /\ UNCHANGED <<lpc, to_use, clk, mem, pm, gets, puts, suspended, npm,
                 dataRefs, hwrng, registered, regOk, unregCalls, unregBad,
                 drop, initInvoked, cleanupInvoked, removePut,
                 inflightAtUnreg>>
  /\ LifeFrame

\* the hwrng core calls the cleanup entry, at most once, while the table is
\* being unregistered and after every other callback has returned
RegistryCallCleanup(c) ==
  /\ drop = "unregistering" /\ regOk > 0
  /\ hwrng.cleanup /\ ~cleanupInvoked
  /\ \A d \in Callers : cb[d].pc = "idle"
  /\ cb' = [cb EXCEPT ![c] = CbCall("cleanup")]
  /\ cleanupInvoked' = TRUE
  /\ UNCHANGED <<lpc, to_use, clk, mem, pm, gets, puts, suspended, npm,
                 dataRefs, hwrng, registered, regOk, unregCalls, unregBad,
                 drop, initInvoked, removePut, inflightAtUnreg>>
  /\ LifeFrame

\* ---- the trampolines init_callback, cleanup_callback, read_callback ----
\* T::Data::borrow(ptr): a borrowed reference to the instance behind ptr; it
\* owns nothing, so dropping it releases nothing
borrow(ptr) == FALSE

\* T::Data::from_pointer(ptr): the owning reference is taken back from ptr
from_pointer(ptr) == TRUE

\* faulty variant: the trampoline takes the instance back instead of
\* borrowing it
CallbackFromPointer(c) ==
  /\ cb[c].pc = "tramp"
  /\ cb' = [cb EXCEPT ![c].pc = "body", ![c].owned = from_pointer(hwrng.priv)]
  /\ UNCHANGED <<lpc, to_use, clk, mem, pm, gets, puts, suspended, npm,
                 dataRefs, hwrng, registered, regOk, unregCalls, unregBad,
                 drop, initInvoked, cleanupInvoked, removePut,
                 inflightAtUnreg>>
  /\ LifeFrame

\* let data = unsafe { T::Data::borrow((*rng).priv_ as *const c_void) };
CallbackBorrow(c) ==
  /\ cb[c].pc = "tramp"
  /\ cb' = [cb EXCEPT ![c].pc = "body", ![c].owned = borrow(hwrng.priv)]
  /\ UNCHANGED <<lpc, to_use, clk, mem, pm, gets, puts, suspended, npm,
                 dataRefs, hwrng, registered, regOk, unregCalls, unregBad,
                 drop, initInvoked, cleanupInvoked, removePut,
                 inflightAtUnreg>>
  /\ LifeFrame

\* what ExynosTrngDevice::init can return
InitResults == {Ok(0), Err("ERANGE"), Err("ENXIO")}

\* what ExynosTrngDevice::read can return
ReadResults ==
  {Ok(ReadMax(len)) : len \in BufLens}
    \cup {Err("ENXIO"), Err("ETIMEDOUT"), Err("EINVAL")}

\* Error::to_kernel_errno: the errno of the kernel, negative
to_kernel_errno(e) ==
  CASE e = "ENXIO" -> 0 - 6
    [] e = "EINVAL" -> 0 - 22
    [] e = "ERANGE" -> 0 - 34
    [] e = "ETIMEDOUT" -> 0 - 110

\* from_kernel_result!: Ok(v) is v, Err(e) is e.to_kernel_errno()
from_kernel_result(r) ==
  IF r.kind = "Ok" THEN r.v ELSE to_kernel_errno(r.e)

\* init_callback: T::init(data)?; Ok(0)
init_callback(r) ==
  from_kernel_result(IF r.kind = "Err" THEN r ELSE Ok(0))

\* faulty variant: the error of T::read is not propagated by `?`
read_callback_without_try(r) == from_kernel_result(Ok(r.v))

\* read_callback: let ret = T::read(drv_data, buffer, wait)?; Ok(ret)
read_callback(r) ==
  from_kernel_result(IF r.kind = "Err" THEN r ELSE Ok(r.v))

\* T::init(data) / T::cleanup(data) / T::read(drv_data, buffer, wait)
CallbackBody(c) ==
  /\ cb[c].pc = "body"
  /\ \E r \in (CASE cb[c].kind = "init" -> InitResults
                 [] cb[c].kind = "read" -> ReadResults
                 [] OTHER -> {Ok(0)}) :
       cb' = [cb EXCEPT ![c].pc = "result", ![c].res = r]
  /\ UNCHANGED <<lpc, to_use, clk, mem, pm, gets, puts, suspended, npm,
                 dataRefs, hwrng, registered, regOk, unregCalls, unregBad,
                 drop, initInvoked, cleanupInvoked, removePut,
                 inflightAtUnreg>>
  /\ LifeFrame

\* the trampoline returns to the hwrng core: its result is converted and its
\* reference to the instance is dropped
CallbackReturn(c) ==
  /\ cb[c].pc = "result"
  /\ cb' = [cb EXCEPT ![c].pc = "idle",
                      ![c].cret = CASE cb[c].kind = "init" ->
                                         init_callback(cb[c].res)
                                    [] cb[c].kind = "read" ->
                                         read_callback(cb[c].res)
                                    [] OTHER -> 0]
  /\ dataRefs' = IF cb[c].owned /\ dataRefs > 0
                 THEN dataRefs - 1 ELSE dataRefs
  /\ UNCHANGED <<lpc, to_use, clk, mem, pm, gets, puts, suspended, npm,
                 hwrng, registered, regOk, unregCalls, unregBad,
                 drop, initInvoked, cleanupInvoked, removePut,
                 inflightAtUnreg>>
  /\ LifeFrame

\* ---- Drop for Registration ----
\* faulty variant: drop returns without calling hwrng_unregister
RegistrationDropWithoutUnregister ==
  /\ lpc \in {"p_reg_drop", "d_unreg"}
  /\ drop = "none"
  /\ drop' = "unregistering"
  /\ inflightAtUnreg' = (\E c \in Callers : cb[c].pc /= "idle")
  /\ UNCHANGED <<registered, unregCalls, unregBad>>
  /\ UNCHANGED <<lpc, to_use, clk, mem, pm, gets, puts, suspended, npm,
                 dataRefs, hwrng, regOk, cb, initInvoked, cleanupInvoked,
                 removePut>>
  /\ LifeFrame

\* fn drop(&mut self) { unsafe { bindings::hwrng_unregister(...) } }: the call
RegistrationDrop ==
  /\ lpc \in {"p_reg_drop", "d_unreg"}
  /\ drop = "none"
  /\ hwrng_unregister
  /\ drop' = "unregistering"
  /\ inflightAtUnreg' = (\E c \in Callers : cb[c].pc /= "idle")
  /\ UNCHANGED <<lpc, to_use, clk, mem, pm, gets, puts, suspended, npm,
                 dataRefs, hwrng, regOk, cb, initInvoked, cleanupInvoked,
                 removePut>>
  /\ LifeFrame

\* hwrng_unregister returns and with it drop
RegistrationDropReturn ==
  /\ drop = "unregistering"
  /\ hwrng_unregister_drained
  /\ drop' = "returned"
  /\ lpc' = IF lpc = "p_reg_drop" THEN "p_unwind" ELSE "d_resources"
  /\ UNCHANGED <<to_use, clk, mem, pm, gets, puts, suspended, npm, dataRefs,
                 hwrng, registered, regOk, unregCalls, unregBad, cb,
                 initInvoked, cleanupInvoked, removePut, inflightAtUnreg>>
  /\ LifeFrame

\* ---- platform::Driver::remove ----
\* pm_runtime::put_sync(&trng.dev);  (the platform core removes no device
\* between its suspend and its resume)
RemovePutSync ==
  /\ lpc = "bound" /\ ~suspended
  /\ puts' = puts + 1
  /\ removePut' = TRUE
  /\ lpc' = "r_guard"
  /\ UNCHANGED <<to_use, clk, mem, pm, gets, suspended, npm, dataRefs, hwrng,
                 registered, regOk, unregCalls, unregBad, drop, cb,
                 initInvoked, cleanupInvoked, inflightAtUnreg>>
  /\ LifeFrame

\* drop(&trng.disable); Ok(())  -- dropping a shared reference drops nothing
RemoveReturn ==
  /\ lpc = "r_guard"
  /\ lpc' = "d_unreg"
  /\ UNCHANGED <<to_use, clk, mem, pm, gets, puts, suspended, npm, dataRefs,
                 hwrng, registered, regOk, unregCalls, unregBad, drop, cb,
                 initInvoked, cleanupInvoked, removePut, inflightAtUnreg>>
  /\ LifeFrame

\* ---- after remove: the device data's registrations are revoked (the
\* Registration is dropped, see RegistrationDrop), then its resources ----
DeviceRemoveResources ==
  /\ lpc = "d_resources"
  /\ mem' = "unmapped"
  /\ lpc' = "d_ref"
  /\ UNCHANGED <<to_use, clk, pm, gets, puts, suspended, npm, dataRefs, hwrng,
                 registered, regOk, unregCalls, unregBad, drop, cb,
                 initInvoked, cleanupInvoked, removePut, inflightAtUnreg>>
  /\ LifeFrame

\* the platform core's reference to the device data is dropped
DeviceRemoveDropData ==
  /\ lpc = "d_ref"
  /\ IF dataRefs > 1
     THEN /\ dataRefs' = dataRefs - 1
          /\ UNCHANGED <<pm, mem, clk>>
     ELSE /\ dataRefs' = 0
          /\ ReleaseOwned
  /\ lpc' = "removed"
  /\ UNCHANGED <<to_use, gets, puts, suspended, npm, hwrng, registered, regOk,
                 unregCalls, unregBad, drop, cb, initInvoked, cleanupInvoked,
                 removePut, inflightAtUnreg>>
  /\ LifeFrame

\* ---- power::Operations ----
\* suspend: pm_runtime::put_sync(&trng.dev); Ok(())
PmSuspend ==
  /\ lpc = "bound" /\ ~suspended /\ npm < MaxPmCycles
  /\ puts' = puts + 1
  /\ suspended' = TRUE
  /\ UNCHANGED <<lpc, to_use, clk, mem, pm, gets, npm, dataRefs, hwrng,
                 registered, regOk, unregCalls, unregBad, drop, cb,
                 initInvoked, cleanupInvoked, removePut, inflightAtUnreg>>
  /\ LifeFrame

\* resume: pm_runtime::resume_and_get(&trng.dev)?; Ok(())
PmResume ==
  /\ lpc = "bound" /\ suspended
  /\ \E ok \in BOOLEAN : gets' = IF ok THEN gets + 1 ELSE gets
  /\ suspended' = FALSE
  /\ npm' = npm + 1
  /\ UNCHANGED <<lpc, to_use, clk, mem, pm, puts, dataRefs, hwrng, registered,
                 regOk, unregCalls, unregBad, drop, cb, initInvoked,
                 cleanupInvoked, removePut, inflightAtUnreg>>
  /\ LifeFrame

LifeIdle ==
  /\ lpc = "off" /\ to_use = [init |-> TRUE, cleanup |-> FALSE]
  /\ clk = "none" /\ mem = "none" /\ pm = "none"
  /\ gets = 0 /\ puts = 0 /\ suspended = FALSE /\ npm = 0
  /\ dataRefs = 0 /\ hwrng = HwrngDefault
  /\ registered = FALSE /\ regOk = 0 /\ unregCalls = 0 /\ unregBad = FALSE
  /\ drop = "none" /\ cb = [c \in Callers |-> CbIdle]
  /\ initInvoked = FALSE /\ cleanupInvoked = FALSE
  /\ removePut = FALSE /\ inflightAtUnreg = FALSE

(***************************************************************************)
(* The specifications                                                      *)
(***************************************************************************)
\* the break conditions a modelled call may be given
CondChoices == {{0}, Values \ {0}}

PollIdle ==
  /\ timeout = 0 /\ val = NoVal /\ presult = "none"
  /\ pvalue = NoVal /\ lastOp = NoVal
  /\ nreads = 0 /\ nsleeps = 0
  /\ sawExpired = FALSE /\ extraRead = FALSE /\ slack = FALSE

InitPoll ==
  /\ sleep_us \in 0..MaxSleepUs
  /\ timeout_us \in 0..MaxTimeoutUs
  /\ cond \in CondChoices
  /\ ppc = "start"
  /\ now = 0
  /\ PollIdle
  /\ DrvIdle
  /\ LifeIdle

NextPoll ==
  \/ PollEnter
  \/ PollRead
  \/ PollCheck
  \/ PollLastRead
  \/ PollSleep
  \/ PollReturn

SpecPoll == InitPoll /\ [][NextPoll]_vars

InitDrv ==
  /\ usizeBits \in {32, 64}
  /\ clk_rate \in {r \in RateSamples : FitsUsize(r, usizeBits)}
  /\ resources \in {"present", "revoked"}
  /\ regs = RegsReset
  /\ fifo = FifoPattern(0)
  /\ wlog = <<>>
  /\ lockHolder = "none"
  /\ active = {"t1"}
  /\ th = [t \in DrvThreads |-> ThreadIdle]
  /\ clearedAt = NoVal
  /\ now = 0
  /\ sleep_us = 0 /\ timeout_us = 0 /\ cond = {0} /\ ppc = "off"
  /\ timeout = 0 /\ val = NoVal /\ presult = "none"
  /\ pvalue = NoVal /\ lastOp = NoVal
  /\ nreads = 0 /\ nsleeps = 0
  /\ sawExpired = FALSE /\ extraRead = FALSE /\ slack = FALSE
  /\ LifeIdle

NextDrv ==
  \/ \E t \in active : DrvCallInit(t)
  \/ \E t \in active : DrvInitLock(t)
  \/ \E t \in active : DrvInitGetRate(t)
  \/ \E t \in active : DrvInitUnlock(t)
  \/ \E t \in active : DrvInitCheck(t)
  \/ \E t \in active : DrvInitResources(t)
  \/ \E t \in active : DrvInitWriteClkdiv(t)
  \/ \E t \in active : DrvInitWriteCtrl(t)
  \/ \E t \in active : DrvInitWritePost(t)
  \/ \E t \in active : DrvCallRead(t)
  \/ \E t \in active : DrvReadResources(t)
  \/ \E t \in active : DrvReadStart(t)
  \/ \E t \in active : DrvPollEnter(t)
  \/ \E t \in active : DrvPollRead(t)
  \/ \E t \in active : DrvPollCheck(t)
  \/ \E t \in active : DrvPollLastRead(t)
  \/ \E t \in active : DrvPollSleep(t)
  \/ \E t \in active : DrvPollReturn(t)
  \/ \E t \in active : DrvReadCopy(t)
  \/ \E t \in active : DrvReadReturn(t)
  \/ HwGenerate

SpecDrv == InitDrv /\ [][NextDrv]_vars

InitLife ==
  /\ lpc = "p_clk_get" /\ to_use \in ToUseChoices
  /\ clk = "none" /\ mem = "none" /\ pm = "none"
  /\ gets = 0 /\ puts = 0 /\ suspended = FALSE /\ npm = 0
  /\ dataRefs = 0 /\ hwrng = HwrngDefault
  /\ registered = FALSE /\ regOk = 0 /\ unregCalls = 0 /\ unregBad = FALSE
  /\ drop = "none" /\ cb = [c \in Callers |-> CbIdle]
  /\ initInvoked = FALSE /\ cleanupInvoked = FALSE
  /\ removePut = FALSE /\ inflightAtUnreg = FALSE
  /\ now = 0
  /\ sleep_us = 0 /\ timeout_us = 0 /\ cond = {0} /\ ppc = "off"
  /\ PollIdle
  /\ DrvIdle

\* a step of the thread t that runs a callback of the driver
DrvStep(t) ==
  \/ DrvCallInit(t) \/ DrvInitLock(t) \/ DrvInitGetRate(t)
  \/ DrvInitUnlock(t) \/ DrvInitCheck(t) \/ DrvInitResources(t)
  \/ DrvInitWriteClkdiv(t) \/ DrvInitWriteCtrl(t) \/ DrvInitWritePost(t)
  \/ DrvCallRead(t) \/ DrvReadResources(t) \/ DrvReadStart(t)
  \/ DrvPollEnter(t) \/ DrvPollRead(t) \/ DrvPollCheck(t)
  \/ DrvPollLastRead(t) \/ DrvPollSleep(t) \/ DrvPollReturn(t)
  \/ DrvReadCopy(t) \/ DrvReadReturn(t)

\* termination is followed for one clock rate
InitLive == InitDrv /\ usizeBits = 64 /\ clk_rate = <<1000, 0>>

\* the thread of a callback keeps being scheduled and its sleeps end (the
\* clock advances with every sleep); nothing is assumed of the hardware
SpecDrvLive ==
  /\ InitLive
  /\ [][NextDrv]_vars
  /\ WF_vars(\E t \in active : DrvStep(t))

\* two threads of the hwrng core call into the driver at the same time, each
\* init or read once
ConcRates == {<<1000, 0>>, <<32768, 0>>}

InitConc ==
  /\ usizeBits = 64
  /\ clk_rate \in ConcRates
  /\ resources = "present"
  /\ regs = RegsReset
  /\ fifo = FifoPattern(0)
  /\ wlog = <<>>
  /\ lockHolder = "none"
  /\ active = DrvThreads
  /\ th = [t \in DrvThreads |-> ThreadIdle]
  /\ clearedAt = NoVal
  /\ now = 0
  /\ sleep_us = 0 /\ timeout_us = 0 /\ cond = {0} /\ ppc = "off"
  /\ PollIdle
  /\ LifeIdle

SpecConc == InitConc /\ [][NextDrv]_vars

NextLife ==
  \/ ProbeClkGet
  \/ ProbePrepareEnable
  \/ ProbeIoremap
  \/ ProbePmEnable
  \/ ProbeResumeAndGet
  \/ ProbeNewDeviceData
  \/ NewPinnedIntoPointer
  \/ NewPinnedInitHwrng
  \/ NewPinnedBox
  \/ NewPinnedRegister
  \/ ProbeReturnOk
  \/ ProbeUnwind
  \/ \E c \in Callers : RegistryCallInit(c)
  \/ \E c \in Callers : RegistryCallRead(c)
  \/ \E c \in Callers : RegistryCallCleanup(c)
  \/ \E c \in Callers : CallbackBorrow(c)
  \/ \E c \in Callers : CallbackBody(c)
  \/ \E c \in Callers : CallbackReturn(c)
  \/ RegistrationDrop
  \/ RegistrationDropReturn
  \/ RemovePutSync
  \/ RemoveReturn
  \/ DeviceRemoveResources
  \/ DeviceRemoveDropData
  \/ PmSuspend
  \/ PmResume

SpecLife == InitLife /\ [][NextLife]_vars

(***************************************************************************)
(* Properties of the registration's life, checked under SpecLife           *)
(***************************************************************************)
CallbackInFlight == \E c \in Callers : cb[c].pc /= "idle"

\* C1 (drain guarantee): once dropping the Registration has returned, no
\* callback of its table is executing and none can start: the table is out of
\* the registry and every caller of the hwrng core is idle, in every later
\* state.
C1_DrainGuarantee ==
  drop = "returned" => (~registered /\ ~CallbackInFlight)

\* C1 case: a registered table was dropped while a callback was in flight,
\* and the drop has returned
C1_Witness ==
  /\ drop = "returned"
  /\ regOk > 0
  /\ inflightAtUnreg

\* C2 (teardown ordering): by the time remove has released the power usage
\* taken at probe, the table has been unregistered and the unregistration has
\* returned, so that no callback runs against the device afterwards.
C2_UnregisterBeforePowerRelease ==
  removePut => (~registered /\ drop = "returned")

Returned(c, kind) == cb[c].pc = "idle" /\ cb[c].kind = kind

\* C11 (trampoline result mapping): the init entry returns 0 iff the driver's
\* init succeeded and a negative errno otherwise; the read entry returns the
\* driver's byte count, which is not negative, iff the driver's read
\* succeeded and a negative errno otherwise; a failure of the driver never
\* reaches the hwrng core as a value that is not negative.
C11_TrampolineResult ==
  \A c \in Callers :
    /\ Returned(c, "init") =>
         /\ (cb[c].cret = 0) <=> (cb[c].res.kind = "Ok")
         /\ cb[c].res.kind = "Err" => cb[c].cret < 0
    /\ Returned(c, "read") =>
         /\ cb[c].res.kind = "Ok" => (cb[c].cret = cb[c].res.v /\ cb[c].cret >= 0)
         /\ cb[c].res.kind = "Err" => cb[c].cret < 0
         /\ (cb[c].cret >= 0) <=> (cb[c].res.kind = "Ok")

\* C11 case: a read whose driver call failed and an init whose driver call
\* succeeded have both returned to the hwrng core
C11_Witness ==
  \E c, d \in Callers :
    /\ Returned(c, "read") /\ cb[c].res.kind = "Err"
    /\ Returned(d, "init") /\ cb[d].res.kind = "Ok"

TableBuilt == hwrng.priv /= "null"

\* C12 (callback table): in the table handed to the hwrng core the init entry
\* is present iff the driver declared init, the cleanup entry iff it declared
\* cleanup, and the read entry always; an optional callback the driver did
\* not declare is never invoked through the table.
C12_TableEntries ==
  /\ registered => TableBuilt
  /\ TableBuilt =>
       /\ hwrng.init = to_use.init
       /\ hwrng.cleanup = to_use.cleanup
       /\ hwrng.read
  /\ (initInvoked \/ \E c \in Callers : cb[c].kind = "init") => to_use.init
  /\ (cleanupInvoked \/ \E c \in Callers : cb[c].kind = "cleanup")
       => to_use.cleanup

\* C12 case: a driver that declares neither init nor cleanup was registered,
\* served a read and was unregistered again
C12_Witness ==
  /\ ~to_use.init /\ ~to_use.cleanup
  /\ regOk > 0 /\ drop = "returned"
  /\ \E c \in Callers : Returned(c, "read")

\* C13 (power pairing): over a successful probe, any suspends and resumes (a
\* resume may fail) and a final remove, the power releases (put_sync) never
\* outnumber the successful acquires (resume_and_get), and once the device is
\* removed the two counts are equal.
C13_PowerPairing ==
  /\ puts <= gets
  /\ lpc = "removed" => puts = gets

\* C14 (registration lifecycle): hwrng_unregister is called for a table only
\* after a register of that table succeeded, and once per successful
\* register; when the register, or the allocation before it, fails in
\* new_pinned, hwrng_unregister is not called on the never-registered table.
C14_RegistrationLifecycle ==
  /\ ~unregBad
  /\ unregCalls <= regOk
  /\ (drop = "returned" /\ regOk > 0) => unregCalls = regOk

ProbeFailed == lpc = "failed"

\* C15 (failed probe): when probe returns an error, whichever of its fallible
\* steps failed, no callback table of the device is registered with the hwrng
\* core, and no init, read or cleanup callback has been or is being invoked
\* for it.
C15_FailedProbeUnregistered ==
  ProbeFailed =>
    /\ ~registered
    /\ regOk = 0
    /\ ~initInvoked /\ ~cleanupInvoked
    /\ \A c \in Callers : cb[c] = CbIdle

\* C15 case: the probe failed at its last fallible step, the registration,
\* after the table had been built
C15_Witness ==
  /\ ProbeFailed
  /\ TableBuilt
  /\ gets > 0

\* C16 (power release on a failed probe): when probe fails at a step after
\* its resume_and_get succeeded (the allocation of the device data or the
\* registration), the power usage is released again before probe returns: a
\* failed probe leaves acquires and releases balanced.
C16_FailedProbePowerBalanced ==
  ProbeFailed => puts = gets

CallbackStep == \E c \in Callers : cb'[c] /= cb[c]

\* C17 (borrow only): every step of a trampoline (init, read, cleanup), from
\* its call to its return and in any interleaving, leaves the reference count
\* of the instance and the table's opaque data pointer as they were, and no
\* trampoline holds a reference that owns (and so would release) the
\* instance.
C17_BorrowOnly ==
  [][CallbackStep =>
       /\ dataRefs' = dataRefs
       /\ hwrng'.priv = hwrng.priv
       /\ \A c \in Callers : ~cb'[c].owned]_vars

\* C17 case: init, read and cleanup callbacks have all run and returned, and
\* the instance is still held by the platform core and by the table
C17_Witness ==
  /\ initInvoked /\ cleanupInvoked
  /\ \E c, d \in Callers :
       /\ c /= d
       /\ Returned(c, "cleanup")
       /\ Returned(d, "read")
  /\ dataRefs = 2
  /\ hwrng.priv = "data"

\* C22 (ownership given back): once a Registration has been dropped
\* (hwrng_unregister returned), after a successful registration as well as
\* after a new_pinned that failed at the allocation or at the register, the
\* reference that was turned into the table's opaque data pointer has been
\* reclaimed: the instance's reference count is back to what it was before
\* the registration (the one reference of probe or of the platform core, none
\* once that is gone too).
C22_OwnershipGivenBack ==
  drop = "returned" =>
    dataRefs = (IF lpc \in {"removed", "failed"} THEN 0 ELSE 1)

(***************************************************************************)
(* Properties of readx_poll_timeout, checked under SpecPoll                *)
(***************************************************************************)
PollDone == ppc = "done"

\* C3: a call with timeout budget 0 never returns Timeout, whatever the sleep
\* interval and whatever values the polled operation produces: it never
\* observes a passed deadline, never performs the extra read, leaves the loop
\* only on a value that satisfies the condition, and a condition true on the
\* first read ends the call as Ok after exactly one read and no sleep.
C3_ZeroBudgetNeverTimesOut ==
  timeout_us = 0 =>
    /\ presult /= "ETIMEDOUT"
    /\ ~sawExpired /\ ~extraRead
    /\ (ppc \in {"exit", "done"} => val \in cond)
    /\ (PollDone => presult = "Ok" /\ pvalue = lastOp /\ pvalue \in cond)
    /\ (nreads = 1 /\ val \in cond =>
          /\ ppc \in {"exit", "done"}
          /\ nsleeps = 0)

\* C3 witness: a call with budget 0 and a nonzero interval that slept at
\* least twice, read at least three times and then returned Ok.
C3_Witness ==
  /\ timeout_us = 0 /\ sleep_us > 0
  /\ PollDone /\ presult = "Ok"
  /\ nreads >= 3 /\ nsleeps >= 2 /\ now > 0

\* C4: the call returns Ok(v) only when v is the value of its most recent
\* read and the condition holds on v; it returns Timeout only when the budget
\* is nonzero, the clock was observed past the deadline and the one extra read
\* after that observation failed the condition; an extra read that satisfies
\* the condition is returned as Ok.
C4_PollResult ==
  PollDone =>
    /\ presult \in {"Ok", "ETIMEDOUT"}
    /\ (presult = "Ok" => pvalue = lastOp /\ pvalue \in cond)
    /\ (presult = "ETIMEDOUT" =>
          /\ timeout_us /= 0
          /\ sawExpired /\ extraRead
          /\ ktime_gt(now, timeout)
          /\ lastOp \notin cond)
    /\ (extraRead /\ lastOp \in cond => presult = "Ok")

\* C4 witness: a call that saw the deadline passed and whose extra read
\* satisfied the condition, returned as Ok.
C4_Witness ==
  /\ PollDone /\ presult = "Ok"
  /\ sawExpired /\ extraRead /\ timeout_us > 0

\* the case C5 is about: nonzero budget and interval, every sleep inside its
\* range [(sleep_us >> 2) + 1, sleep_us] and reads that take no time
C5_Case == timeout_us > 0 /\ sleep_us > 0 /\ ~slack /\ PollDone

\* C5 as claimed: with the condition first true at the k-th poll, the call
\* returns the value iff k * interval <= T, give or take one read, and
\* Timeout otherwise (k is nreads on an Ok return and at least nreads + 1 on a
\* Timeout return).
C5_AsClaimed ==
  C5_Case =>
    /\ (presult = "Ok" => (nreads - 1) * sleep_us <= timeout_us)
    /\ (presult = "ETIMEDOUT" => (nreads + 2) * sleep_us > timeout_us)

\* C5 amended: with the condition first true at the k-th poll, the call
\* returns the value whenever (k - 3) * interval <= T (so whenever
\* k * interval <= T) and returns Timeout whenever
\* (k - 3) * (interval / 4 + 1) > T; between the two the outcome depends on
\* the sleep durations.  On a Timeout return after n reads every k > n has
\* (k - 3) * interval > T; on an Ok return at the k-th read
\* (k - 3) * (interval / 4 + 1) <= T.
C5_PollBudget ==
  /\ (C5_Case /\ presult = "ETIMEDOUT" =>
        (nreads - 2) * sleep_us > timeout_us)
  /\ (PollDone /\ timeout_us > 0 /\ sleep_us > 0 /\ presult = "Ok" =>
        (nreads - 3) * ((sleep_us \div 4) + 1) <= timeout_us)

\* C5 witness: an Ok return at the k-th read with k * interval > T, no
\* oversleep and no read latency, after at least two sleeps.
C5_Witness ==
  /\ C5_Case /\ presult = "Ok"
  /\ nreads * sleep_us > timeout_us
  /\ nsleeps >= 2 /\ ~extraRead

(***************************************************************************)
(* Properties of the driver's init and read, checked under SpecDrv         *)
(***************************************************************************)
\* the register writes thread t performed, in order
WritesBy(t) == SelectSeq(wlog, LAMBDA w : w.by = t)
InitReturned(t) == th[t].op = "init" /\ th[t].pc = "ret"
ReadReturned(t) == th[t].op = "read" /\ th[t].pc = "ret"
\* the poll of t's read ended on a value that satisfies its condition
ReadPollSucceeded(t) ==
  /\ th[t].op = "read" /\ th[t].nrd > 0
  /\ th[t].pc \in {"r_copy", "r_ok", "ret"}
  /\ th[t].lastOp = {}
\* min(L, 32)
Clamp32(len) == IF len <= 32 THEN len ELSE 32

\* C6: for every clock rate R with R / 1 000 000 <= 0x7FFF and the resources
\* present, init returns success after exactly three register writes in this
\* order: (R / 1 000 000) << 1 to offset 0x00, bit 31 to offset 0x20 and 0 to
\* offset 0x30; for R = 1 000 000 000 the divider register receives 2000.
C6_InitSuccess ==
  \A t \in active :
    InitReturned(t) /\ clk_rate[1] <= 32767 /\ resources = "present" =>
      /\ th[t].ret = [kind |-> "Ok", v |-> 0, e |-> "none"]
      /\ wlog = << [off |-> 0, val |-> Word(clk_rate[1] * 2), by |-> t],
                   [off |-> 32, val |-> {31}, by |-> t],
                   [off |-> 48, val |-> {}, by |-> t] >>
      /\ (clk_rate = <<1000, 0>> => regs[0] = {4, 6, 7, 8, 9, 10})

\* C6 witness: init has returned success at 1 GHz with 2000 in the divider
\* register and the generator-enable bit set.
C6_Witness ==
  \E t \in active :
    /\ InitReturned(t) /\ th[t].ret.kind = "Ok"
    /\ clk_rate = <<1000, 0>>
    /\ regs[0] = {4, 6, 7, 8, 9, 10} /\ regs[32] = {31} /\ Len(wlog) = 3

\* C7: for every clock rate R with R / 1 000 000 > 0x7FFF, init fails with
\* ERANGE and performs no register write at all: at no point of the call is a
\* register written, and the generator-enable bit stays clear.
C7_InitRangeExceeded ==
  \A t \in active :
    th[t].op = "init" /\ clk_rate[1] > 32767 =>
      /\ wlog = <<>>
      /\ \A o \in DOMAIN regs : regs[o] = {}
      /\ th[t].pc \notin {"i_res", "i_clkdiv", "i_ctrl", "i_post"}
      /\ (th[t].pc = "ret" =>
            th[t].ret = [kind |-> "Err", v |-> 0, e |-> "ERANGE"])

\* C7 witness: init has returned ERANGE at a rate of 32 768 MHz.
C7_Witness ==
  \E t \in active :
    /\ InitReturned(t) /\ th[t].ret.e = "ERANGE"
    /\ clk_rate = <<32768, 0>> /\ wlog = <<>>

\* C8: for every buffer length L >= 0, a read whose poll succeeds has written
\* min(L, 32) * 8 to the FIFO-control register (0x50), once, and returns
\* exactly min(L, 32); L = 0 returns 0.
C8_ReadCount ==
  \A t \in active :
    ReadPollSucceeded(t) =>
      /\ WritesBy(t) = << [off |-> 80, val |-> Word(Clamp32(th[t].len) * 8),
                           by |-> t] >>
      /\ (th[t].pc = "ret" =>
            th[t].ret = [kind |-> "Ok", v |-> Clamp32(th[t].len), e |-> "none"])
      /\ (th[t].pc = "ret" /\ th[t].len = 0 => th[t].ret.v = 0)

\* C8 witness: a read with a 100-byte buffer returned 32 after the hardware
\* completed its request of 256 bits.
C8_Witness ==
  \E t \in active :
    /\ ReadReturned(t) /\ th[t].len = 100
    /\ th[t].ret.kind = "Ok" /\ th[t].ret.v = 32
    /\ clearedAt /= NoVal /\ th[t].nrd >= 2

\* C9: after a successful read with buffer length L, the first min(L, 32)
\* bytes of the caller buffer equal the first min(L, 32) bytes of the FIFO
\* data window at offset 0x80, and the bytes at index >= min(L, 32) are
\* unchanged.
C9_ReadBytes ==
  \A t \in active :
    ReadReturned(t) /\ th[t].ret.kind = "Ok" =>
      /\ Len(th[t].data) = th[t].len
      /\ \A i \in 1..th[t].len :
           IF i <= Clamp32(th[t].len)
           THEN th[t].data[i] = fifo[i] /\ th[t].data[i] = th[t].fifoAtCopy[i]
           ELSE th[t].data[i] = th[t].data0[i]

\* C9 witness: a successful read with a 100-byte buffer after the hardware
\* refilled the FIFO: byte 32 comes from the FIFO, byte 33 is the caller's.
C9_Witness ==
  \E t \in active :
    /\ ReadReturned(t) /\ th[t].ret.kind = "Ok" /\ th[t].len = 100
    /\ clearedAt /= NoVal /\ fifo = FifoPattern(1)
    /\ th[t].data[32] = fifo[32] /\ th[t].data[32] /= th[t].data0[32]
    /\ th[t].data[33] = th[t].data0[33]

\* t's read has issued its request and returned
ReadRequestReturned(t) == ReadReturned(t) /\ th[t].nwr > 0
TimedOut(t) == th[t].ret = [kind |-> "Err", v |-> 0, e |-> "ETIMEDOUT"]
\* the hardware cleared FIFO_CTRL within the budget of t's poll
ClearedWithinBudget(t) == clearedAt /= NoVal /\ clearedAt <= th[t].timeout

\* C10 as claimed: when the hardware does not clear the FIFO-control register
\* within the 1 000 000-unit budget of the poll, read fails with Timeout,
\* leaves the caller buffer unchanged and has written the FIFO-control
\* register once.
C10_AsClaimed ==
  \A t \in active :
    ReadRequestReturned(t) /\ th[t].max > 0 /\ ~ClearedWithinBudget(t) =>
      /\ TimedOut(t)
      /\ th[t].data = th[t].data0
      /\ th[t].nwr = 1

\* C10 amended: when the FIFO-control register is still nonzero at the last
\* read of the poll (the one extra read made after the clock was observed
\* past the 1 000 000-unit deadline), in particular when the hardware never
\* clears it, read fails with Timeout, leaves the caller buffer unchanged and
\* has written the FIFO-control register exactly once; a read that fails
\* with Timeout has observed the clock past the deadline and made that extra
\* read.
C10_ReadTimeout ==
  \A t \in active :
    ReadRequestReturned(t) =>
      /\ th[t].nwr = 1
      /\ Len(SelectSeq(wlog, LAMBDA w : w.by = t /\ w.off = 80)) = 1
      /\ (th[t].lastOp /= {} => TimedOut(t))
      /\ (clearedAt = NoVal /\ th[t].max > 0 => TimedOut(t))
      /\ (TimedOut(t) =>
            /\ th[t].data = th[t].data0
            /\ th[t].sawExp /\ th[t].extra
            /\ th[t].timeout >= 1000000
            /\ now > th[t].timeout
            /\ th[t].lastOp /= {})

\* C10 witness: a read of a nonempty buffer returned Timeout with the
\* hardware never having cleared the request, the buffer as the caller
\* passed it, after polling through short sleeps.
C10_Witness ==
  \E t \in active :
    /\ ReadRequestReturned(t) /\ TimedOut(t) /\ th[t].max > 0
    /\ clearedAt = NoVal /\ th[t].data = th[t].data0
    /\ th[t].nshort >= 2 /\ now > 1000000

(***************************************************************************)
(* Properties of concurrent calls into the driver, checked under SpecConc  *)
(***************************************************************************)
\* C18 (reads are not arbitrated): nothing in read waits for another read: a
\* read holds no lock and its write to FIFO_CTRL is enabled wherever the
\* other thread is, so two reads can be between their FIFO_CTRL write and
\* their copy at the same time.
C18_ReadsNotArbitrated ==
  \A t \in active :
    /\ th[t].op = "read" => lockHolder /= t
    /\ th[t].pc = "r_start" => ENABLED DrvReadStart(t)

\* C18 case: both threads are between their write to FIFO_CTRL and their copy
C18_Witness ==
  /\ active = DrvThreads
  /\ \A t \in DrvThreads : InReadWindow(t)

\* C19 (request/drain integrity): with up to two reads at once, a read that
\* returns n > 0 copied the FIFO only after the hardware had completed a
\* request of at least n * 8 bits that this read itself wrote to FIFO_CTRL,
\* and never while a request was still pending.
C19_RequestDrainIntegrity ==
  \A t \in active :
    (ReadReturned(t) /\ th[t].ret.kind = "Ok") =>
      /\ th[t].max > 0 => th[t].servedAtCopy >= th[t].max * 8
      /\ ~th[t].pendAtCopy

InCritical(t) == th[t].pc \in {"i_rate", "i_unlock"}

\* C20 (clock-handle lock): at most one thread is between taking and
\* releasing the lock, the clock rate is read only by the holder, and the
\* lock is released before init checks the divider, so before its first
\* register write and before every return (RangeExceeded included): it is
\* never held by a thread that has returned.
C20_LockExclusion ==
  /\ Cardinality({t \in active : InCritical(t)}) <= 1
  /\ lockHolder \in active \cup {"none"}
  /\ \A t \in active :
       /\ InCritical(t) <=> lockHolder = t
       /\ th[t].pc \in {"i_check", "i_res", "i_clkdiv", "i_ctrl", "i_post",
                        "ret", "idle"} => lockHolder /= t
       /\ \A i \in 1..Len(wlog) : wlog[i].by = t => lockHolder /= t

\* C20 case: one init has returned RangeExceeded while the other init holds
\* the lock
C20_Witness ==
  \E t, u \in active :
    /\ t /= u
    /\ InitReturned(t) /\ th[t].ret = Err("ERANGE")
    /\ InCritical(u) /\ lockHolder = u

(***************************************************************************)
(* Termination of read, checked under SpecDrvLive                          *)
(***************************************************************************)
\* C21 (read terminates): every read that was called eventually returns; when
\* it issued a request that the hardware never cleared, it returns Timeout,
\* after its poll saw the deadline passed and made one last register read.
C21_ReadTerminates ==
  \A t \in DrvThreads :
    (th[t].op = "read") ~>
      /\ ReadReturned(t)
      /\ (th[t].nwr > 0 /\ th[t].max > 0 /\ clearedAt = NoVal) =>
            (TimedOut(t) /\ th[t].sawExp /\ th[t].extra)

\* C21 case: a read whose request the hardware never cleared has returned
\* Timeout after short and long sleeps and a last read
C21_Witness ==
  \E t \in active :
    /\ ReadReturned(t) /\ TimedOut(t)
    /\ clearedAt = NoVal
    /\ th[t].extra /\ th[t].nshort = MaxShortSleeps
    /\ regs[EXYNOS_TRNG_FIFO_CTRL] /= Word(0)
====
